---- MODULE Spec2Model ----
(***************************************************************************)
(* Model of the bounded long-poll waiter (WaitForQueueMessage, sqs) and of *)
(* the MFA device enrollment flow (CreateMfaDeviceE / EnableMfaDeviceE,    *)
(* iam) of modules/aws.                                                    *)
(***************************************************************************)
EXTENDS Integers, Sequences, FiniteSets, TLC

\* ------------------------------------------------------------------ bounds
MaxTimeout == 45
MaxMessages == 2
MaxCallDelay == 1
MaxOversleep == 1

\* ------------------------------------------------------- program constants
MaxWaitTimeSeconds == 20
ShortCycleLength == 1
MaxNumberOfMessages == 1
SettleSeconds == 30
PropagationSeconds == 10

\* ------------------------------------------------------------ input values
QueueUrls == {"q1", "q2"}
Handles == {"h1", "h2"}
Bodies == {"b1", "b2"}
Errors == {"e1", "e2"}
Sessions == {"s1"}
NilSession == "nil"
FreshSession == "fresh"
NoClient == "none"

\* The variadic sessExists argument: no argument, an explicit nil, or a session.
SessArgs == {<<>>} \cup {<<s>> : s \in Sessions \cup {NilSession}}

DeviceNames == {"devA", "devB"}
Seeds == {"k1", "k2"}
Arns == {"arn1"}

\* *iam.VirtualMFADevice: serial number and shared secret
VirtualMFADevice(n, k) == [SerialNumber |-> n, Base32StringSeed |-> k]
NilDevice == VirtualMFADevice("nil", "nil")
MfaDevices == {VirtualMFADevice(n, k) : n \in DeviceNames, k \in Seeds}

\* a one-time password is identified by the secret and the time it was computed from
OneTimePassword(k, at) == [seed |-> k, at |-> at]
NoCode == OneTimePassword("nil", 0)
NoEnableInput == [AuthenticationCode1 |-> NoCode, AuthenticationCode2 |-> NoCode,
                  SerialNumber |-> "nil", UserName |-> "nil"]

InstanceIds == {"i1", "i2"}
PublicIps == {"ip1", "ip2"}

Message == [ReceiptHandle : Handles, Body : Bodies]
MessageLists == UNION {[1..n -> Message] : n \in 0..MaxMessages}

\* error values: nil, a transport error, or ReceiveMessageTimeout{QueueUrl, TimeoutSec}
NilError == [kind |-> "nil", err |-> "", QueueUrl |-> "", TimeoutSec |-> 0]
TransportError(e) == [kind |-> "transport", err |-> e, QueueUrl |-> "", TimeoutSec |-> 0]
ReceiveMessageTimeout(q, t) == [kind |-> "timeout", err |-> "", QueueUrl |-> q, TimeoutSec |-> t]

\* IpForEc2InstanceNotFound{InstanceId, AwsRegion}; the instance id is kept in err
IpForEc2InstanceNotFound(id) == [kind |-> "ipNotFound", err |-> id, QueueUrl |-> "", TimeoutSec |-> 0]

QueueMessageResponse(h, b, e) == [ReceiptHandle |-> h, MessageBody |-> b, Error |-> e]
ZeroResponse == QueueMessageResponse("", "", NilError)

VARIABLES active,
          wpc, queueURL, timeout, sessExists, sqsClient, cycles, cycleLength, i,
          calls, logged, results, received, resp,
          epc, entry, eSess, clock, devices, enabled, mfaDevice, iamClient,
          iamUserName, authCode1, authCode2, enableInput, steps, eret,
          xpc, xEntry, xSess, instanceIDs, ec2Client, xret, fatalErr

wvars == <<wpc, queueURL, timeout, sessExists, sqsClient, cycles, cycleLength, i,
           calls, logged, results, received, resp>>
evars == <<epc, entry, eSess, clock, devices, enabled, mfaDevice, iamClient,
           iamUserName, authCode1, authCode2, enableInput, steps, eret>>
xvars == <<xpc, xEntry, xSess, instanceIDs, ec2Client, xret, fatalErr>>
vars == <<active, wvars, evars, xvars>>

\* ------------------------------------------------------- session provider
\* NewAuthenticatedSession(region, sess): an existing handle is used as is, a
\* nil handle asks for a fresh session, which may fail.
NewAuthenticatedSession(sess, fresh) ==
    IF sess # NilSession THEN [sess |-> sess, err |-> NilError]
    ELSE fresh

FreshOutcomes == {[sess |-> FreshSession, err |-> NilError]}
                 \cup {[sess |-> NoClient, err |-> TransportError(e)] : e \in Errors}

\* NewSqsClientE: the client wraps the session, or the session error is returned.
NewSqsClientE(sess, fresh) == NewAuthenticatedSession(sess, fresh)

\* ------------------------------------------------------------- time budget
\* faulty variants: the threshold test written strictly; the division rounded up
TimeBudget_strict(t) ==
    IF t > MaxWaitTimeSeconds
    THEN [cycles |-> t \div MaxWaitTimeSeconds, cycleLength |-> MaxWaitTimeSeconds]
    ELSE [cycles |-> t, cycleLength |-> ShortCycleLength]

TimeBudget_roundUp(t) ==
    IF t >= MaxWaitTimeSeconds
    THEN [cycles |-> (t + MaxWaitTimeSeconds - 1) \div MaxWaitTimeSeconds,
          cycleLength |-> MaxWaitTimeSeconds]
    ELSE [cycles |-> t, cycleLength |-> ShortCycleLength]

TimeBudget(t) ==
    IF t >= MaxWaitTimeSeconds
    THEN [cycles |-> t \div MaxWaitTimeSeconds, cycleLength |-> MaxWaitTimeSeconds]
    ELSE [cycles |-> t, cycleLength |-> ShortCycleLength]

\* ------------------------------------------------------------------ waiter
WInit ==
    /\ wpc = "idle" /\ queueURL = "" /\ timeout = 0 /\ sessExists = <<>>
    /\ sqsClient = NoClient /\ cycles = 0 /\ cycleLength = 0 /\ i = 0
    /\ calls = <<>> /\ logged = <<>> /\ results = <<>> /\ received = <<>>
    /\ resp = ZeroResponse

\* WaitForQueueMessage called without a session argument: sessExists[0] is out of range.
WaitForQueueMessagePanics ==
    /\ active = "none"
    /\ \E q \in QueueUrls, t \in 0..MaxTimeout :
        /\ queueURL' = q /\ timeout' = t /\ sessExists' = <<>>
    /\ active' = "wait"
    /\ wpc' = "panic"
    /\ UNCHANGED <<evars, xvars>>
    /\ UNCHANGED <<sqsClient, cycles, cycleLength, i, calls, logged, results, received, resp>>

\* The call up to the loop head: client construction and the time budget.
WaitForQueueMessage ==
    /\ active = "none"
    /\ \E q \in QueueUrls, t \in 0..MaxTimeout, se \in SessArgs, fresh \in FreshOutcomes :
        /\ Len(se) > 0
        /\ queueURL' = q /\ timeout' = t /\ sessExists' = se
        /\ LET c == NewSqsClientE(se[1], fresh) IN
            IF c.err # NilError
            THEN /\ resp' = QueueMessageResponse("", "", c.err)
                 /\ wpc' = "done"
                 /\ UNCHANGED <<sqsClient, cycles, cycleLength>>
            ELSE /\ sqsClient' = c.sess
                 /\ cycles' = TimeBudget(t).cycles
                 /\ cycleLength' = TimeBudget(t).cycleLength
                 /\ wpc' = "loop"
                 /\ resp' = resp
    /\ active' = "wait"
    /\ UNCHANGED <<evars, xvars>>
    /\ UNCHANGED <<i, calls, logged, results, received>>

\* faulty variant: the progress log counts the attempt that is about to start
Issue_logsAfter ==
         /\ logged' = Append(logged, (i + 1) * cycleLength)
         /\ calls' = Append(calls, [WaitTimeSeconds |-> cycleLength,
                                    MaxNumberOfMessages |-> MaxNumberOfMessages,
                                    QueueUrl |-> queueURL])

\* One receive call is issued: the progress log entry and the request.
Issue == /\ logged' = Append(logged, i * cycleLength)
         /\ calls' = Append(calls, [WaitTimeSeconds |-> cycleLength,
                                    MaxNumberOfMessages |-> MaxNumberOfMessages,
                                    QueueUrl |-> queueURL])

\* faulty variant: a failed receive call is absorbed and polling continues
ReceiveFails_retry ==
    /\ wpc = "loop" /\ i < cycles
    /\ Issue
    /\ \E e \in Errors : results' = Append(results, e)
    /\ i' = i + 1
    /\ UNCHANGED <<evars, xvars>>
    /\ UNCHANGED <<active, wpc, queueURL, timeout, sessExists, sqsClient, cycles, cycleLength, received, resp>>

ReceiveFails ==
    /\ wpc = "loop" /\ i < cycles
    /\ Issue
    /\ \E e \in Errors :
        /\ resp' = QueueMessageResponse("", "", TransportError(e))
        /\ results' = Append(results, e)
    /\ wpc' = "done"
    /\ UNCHANGED <<evars, xvars>>
    /\ UNCHANGED <<active, queueURL, timeout, sessExists, sqsClient, cycles, cycleLength, i, received>>

\* faulty variant: a delivered message is noted but the loop goes on to the next attempt
ReceiveMessages_continue ==
    /\ wpc = "loop" /\ i < cycles
    /\ Issue
    /\ \E ms \in MessageLists :
        /\ Len(ms) > 0
        /\ received' = ms
        /\ resp' = QueueMessageResponse(ms[1].ReceiptHandle, ms[1].Body, NilError)
    /\ results' = Append(results, "message")
    /\ i' = i + 1
    /\ UNCHANGED <<evars, xvars>>
    /\ UNCHANGED <<active, wpc, queueURL, timeout, sessExists, sqsClient, cycles, cycleLength>>

ReceiveMessages ==
    /\ wpc = "loop" /\ i < cycles
    /\ Issue
    /\ \E ms \in MessageLists :
        /\ Len(ms) > 0
        /\ received' = ms
        /\ resp' = QueueMessageResponse(ms[1].ReceiptHandle, ms[1].Body, NilError)
    /\ results' = Append(results, "message")
    /\ wpc' = "done"
    /\ UNCHANGED <<evars, xvars>>
    /\ UNCHANGED <<active, queueURL, timeout, sessExists, sqsClient, cycles, cycleLength, i>>

ReceiveEmpty ==
    /\ wpc = "loop" /\ i < cycles
    /\ Issue
    /\ results' = Append(results, "empty")
    /\ i' = i + 1
    /\ UNCHANGED <<evars, xvars>>
    /\ UNCHANGED <<active, wpc, queueURL, timeout, sessExists, sqsClient, cycles, cycleLength, received, resp>>

LoopExhausted ==
    /\ wpc = "loop" /\ ~(i < cycles)
    /\ resp' = QueueMessageResponse("", "", ReceiveMessageTimeout(queueURL, timeout))
    /\ wpc' = "done"
    /\ UNCHANGED <<evars, xvars>>
    /\ UNCHANGED <<active, queueURL, timeout, sessExists, sqsClient, cycles, cycleLength, i,
                   calls, logged, results, received>>


\* -------------------------------------------------------------- enrollment
EInit ==
    /\ epc = "idle" /\ entry = "none" /\ eSess = <<>> /\ clock = 0
    /\ devices = {} /\ enabled = {} /\ mfaDevice = NilDevice /\ iamClient = NoClient
    /\ iamUserName = "nil" /\ authCode1 = NoCode /\ authCode2 = NoCode
    /\ enableInput = NoEnableInput /\ steps = <<>>
    /\ eret = [device |-> NilDevice, err |-> NilError]

Step(op, from, to, e) == [op |-> op, start |-> from, end |-> to, err |-> e]

\* NewIamClientE: the client wraps the session, or the session error is returned.
NewIamClientE(sess, fresh) == NewAuthenticatedSession(sess, fresh)

GetUserOutcomes == {[arn |-> a, err |-> NilError] : a \in Arns}
                   \cup {[arn |-> "nil", err |-> TransportError(e)] : e \in Errors}

\* GetIamCurrentUserArnE: client construction, then GetUser.
GetIamCurrentUserArnE(sess, fresh, user) ==
    LET c == NewIamClientE(sess, fresh) IN
    IF c.err # NilError THEN [arn |-> "nil", err |-> c.err, sess |-> NoClient]
    ELSE IF user.err # NilError THEN [arn |-> "nil", err |-> user.err, sess |-> c.sess]
    ELSE [arn |-> user.arn, err |-> NilError, sess |-> c.sess]

\* CreateMfaDeviceE is entered.
CreateMfaDeviceE ==
    /\ active = "none"
    /\ \E n \in DeviceNames, se \in SessArgs :
        /\ mfaDevice' = VirtualMFADevice(n, "nil")
        /\ eSess' = se
    /\ active' = "mfa" /\ entry' = "create" /\ epc' = "create"
    /\ UNCHANGED <<wvars, xvars>>
    /\ UNCHANGED <<clock, devices, enabled, iamClient, iamUserName, authCode1, authCode2,
                   enableInput, steps, eret>>

\* faulty variant: a failed creation is ignored and the flow goes on to enable the device
CreateVirtualMFADeviceFails_goesOn ==
    /\ active = "mfa" /\ epc = "create"
    /\ \E d \in 0..MaxCallDelay, e \in Errors :
        /\ clock' = clock + d
        /\ steps' = Append(steps, Step("create", clock, clock + d, TransportError(e)))
    /\ epc' = IF Len(eSess) = 0 THEN "panic" ELSE "lookup"
    /\ UNCHANGED <<wvars, xvars>>
    /\ UNCHANGED <<active, entry, eSess, devices, enabled, mfaDevice, iamClient, iamUserName,
                   authCode1, authCode2, enableInput, eret>>

\* CreateVirtualMFADevice fails: the error is returned.
CreateVirtualMFADeviceFails ==
    /\ active = "mfa" /\ epc = "create"
    /\ \E d \in 0..MaxCallDelay, e \in Errors :
        /\ clock' = clock + d
        /\ steps' = Append(steps, Step("create", clock, clock + d, TransportError(e)))
        /\ eret' = [device |-> NilDevice, err |-> TransportError(e)]
    /\ epc' = "done"
    /\ UNCHANGED <<wvars, xvars>>
    /\ UNCHANGED <<active, entry, eSess, devices, enabled, mfaDevice, iamClient, iamUserName,
                   authCode1, authCode2, enableInput>>

\* CreateVirtualMFADevice succeeds; EnableMfaDeviceE is called with sessExists[0],
\* which is out of range when no session argument was given.
CreateVirtualMFADeviceOk ==
    /\ active = "mfa" /\ epc = "create"
    /\ \E d \in 0..MaxCallDelay, k \in Seeds :
        /\ clock' = clock + d
        /\ steps' = Append(steps, Step("create", clock, clock + d, NilError))
        /\ mfaDevice' = VirtualMFADevice(mfaDevice.SerialNumber, k)
    /\ devices' = devices \cup {mfaDevice.SerialNumber}
    /\ epc' = IF Len(eSess) = 0 THEN "panic" ELSE "lookup"
    /\ UNCHANGED <<wvars, xvars>>
    /\ UNCHANGED <<active, entry, eSess, enabled, iamClient, iamUserName,
                   authCode1, authCode2, enableInput, eret>>

\* EnableMfaDeviceE is called directly on a device created earlier.
EnableMfaDeviceE ==
    /\ active = "none"
    /\ \E dev \in MfaDevices, se \in SessArgs :
        /\ mfaDevice' = dev
        /\ devices' = devices \cup {dev.SerialNumber}
        /\ eSess' = se
        /\ epc' = IF Len(se) = 0 THEN "panic" ELSE "lookup"
    /\ active' = "mfa" /\ entry' = "enable"
    /\ UNCHANGED <<wvars, xvars>>
    /\ UNCHANGED <<clock, enabled, iamClient, iamUserName, authCode1, authCode2,
                   enableInput, steps, eret>>

GetIamCurrentUserArnFails ==
    /\ active = "mfa" /\ epc = "lookup"
    /\ \E d \in 0..MaxCallDelay, fresh \in FreshOutcomes, user \in GetUserOutcomes :
        LET r == GetIamCurrentUserArnE(eSess[1], fresh, user) IN
        /\ r.err # NilError
        /\ clock' = clock + d
        /\ steps' = Append(steps, Step("lookup", clock, clock + d, r.err))
        /\ iamClient' = r.sess
        /\ eret' = [device |-> NilDevice, err |-> r.err]
    /\ epc' = "done"
    /\ UNCHANGED <<wvars, xvars>>
    /\ UNCHANGED <<active, entry, eSess, devices, enabled, mfaDevice, iamUserName,
                   authCode1, authCode2, enableInput>>

GetIamCurrentUserArnOk ==
    /\ active = "mfa" /\ epc = "lookup"
    /\ \E d \in 0..MaxCallDelay, fresh \in FreshOutcomes, user \in GetUserOutcomes :
        LET r == GetIamCurrentUserArnE(eSess[1], fresh, user) IN
        /\ r.err = NilError
        /\ clock' = clock + d
        /\ steps' = Append(steps, Step("lookup", clock, clock + d, NilError))
        /\ iamClient' = r.sess
        /\ iamUserName' = r.arn
    /\ epc' = "code1"
    /\ UNCHANGED <<wvars, xvars>>
    /\ UNCHANGED <<active, entry, eSess, devices, enabled, mfaDevice,
                   authCode1, authCode2, enableInput, eret>>

FirstCodeFails ==
    /\ active = "mfa" /\ epc = "code1"
    /\ \E d \in 0..MaxCallDelay, e \in Errors :
        /\ clock' = clock + d
        /\ steps' = Append(steps, Step("code1", clock, clock + d, TransportError(e)))
        /\ eret' = [device |-> NilDevice, err |-> TransportError(e)]
    /\ epc' = "done"
    /\ UNCHANGED <<wvars, xvars>>
    /\ UNCHANGED <<active, entry, eSess, devices, enabled, mfaDevice, iamClient, iamUserName,
                   authCode1, authCode2, enableInput>>

FirstCodeOk ==
    /\ active = "mfa" /\ epc = "code1"
    /\ \E d \in 0..MaxCallDelay :
        /\ clock' = clock + d
        /\ steps' = Append(steps, Step("code1", clock, clock + d, NilError))
        /\ authCode1' = OneTimePassword(mfaDevice.Base32StringSeed, clock + d)
    /\ epc' = "sleep30"
    /\ UNCHANGED <<wvars, xvars>>
    /\ UNCHANGED <<active, entry, eSess, devices, enabled, mfaDevice, iamClient, iamUserName,
                   authCode2, enableInput, eret>>

\* faulty variant: the settle delay is left out
SettleSleep_skipped ==
    /\ active = "mfa" /\ epc = "sleep30"
    /\ steps' = Append(steps, Step("sleep30", clock, clock, NilError))
    /\ epc' = "code2"
    /\ UNCHANGED <<wvars, xvars>>
    /\ UNCHANGED <<active, entry, eSess, clock, devices, enabled, mfaDevice, iamClient,
                   iamUserName, authCode1, authCode2, enableInput, eret>>

\* time.Sleep(30 * time.Second): at least 30 time units pass.
SettleSleep ==
    /\ active = "mfa" /\ epc = "sleep30"
    /\ \E j \in 0..MaxOversleep :
        /\ clock' = clock + SettleSeconds + j
        /\ steps' = Append(steps, Step("sleep30", clock, clock + SettleSeconds + j, NilError))
    /\ epc' = "code2"
    /\ UNCHANGED <<wvars, xvars>>
    /\ UNCHANGED <<active, entry, eSess, devices, enabled, mfaDevice, iamClient, iamUserName,
                   authCode1, authCode2, enableInput, eret>>

\* faulty variant: a failed second code sends the flow back for a new first code
SecondCodeFails_retries ==
    /\ active = "mfa" /\ epc = "code2"
    /\ Len(steps) < 12
    /\ \E d \in 0..MaxCallDelay, e \in Errors :
        /\ clock' = clock + d
        /\ steps' = Append(steps, Step("code2", clock, clock + d, TransportError(e)))
    /\ epc' = "code1"
    /\ UNCHANGED <<wvars, xvars>>
    /\ UNCHANGED <<active, entry, eSess, devices, enabled, mfaDevice, iamClient, iamUserName,
                   authCode1, authCode2, enableInput, eret>>

SecondCodeFails ==
    /\ active = "mfa" /\ epc = "code2"
    /\ \E d \in 0..MaxCallDelay, e \in Errors :
        /\ clock' = clock + d
        /\ steps' = Append(steps, Step("code2", clock, clock + d, TransportError(e)))
        /\ eret' = [device |-> NilDevice, err |-> TransportError(e)]
    /\ epc' = "done"
    /\ UNCHANGED <<wvars, xvars>>
    /\ UNCHANGED <<active, entry, eSess, devices, enabled, mfaDevice, iamClient, iamUserName,
                   authCode1, authCode2, enableInput>>

SecondCodeOk ==
    /\ active = "mfa" /\ epc = "code2"
    /\ \E d \in 0..MaxCallDelay :
        /\ clock' = clock + d
        /\ steps' = Append(steps, Step("code2", clock, clock + d, NilError))
        /\ authCode2' = OneTimePassword(mfaDevice.Base32StringSeed, clock + d)
    /\ epc' = "enable"
    /\ UNCHANGED <<wvars, xvars>>
    /\ UNCHANGED <<active, entry, eSess, devices, enabled, mfaDevice, iamClient, iamUserName,
                   authCode1, enableInput, eret>>

\* the request of iamClient.EnableMFADevice
EnableMFADeviceInput ==
    [AuthenticationCode1 |-> authCode1, AuthenticationCode2 |-> authCode2,
     SerialNumber |-> mfaDevice.SerialNumber, UserName |-> iamUserName]

EnableMFADeviceFails ==
    /\ active = "mfa" /\ epc = "enable"
    /\ enableInput' = EnableMFADeviceInput
    /\ \E d \in 0..MaxCallDelay, e \in Errors :
        /\ clock' = clock + d
        /\ steps' = Append(steps, Step("enable", clock, clock + d, TransportError(e)))
        /\ eret' = [device |-> NilDevice, err |-> TransportError(e)]
    /\ epc' = "done"
    /\ UNCHANGED <<wvars, xvars>>
    /\ UNCHANGED <<active, entry, eSess, devices, enabled, mfaDevice, iamClient, iamUserName,
                   authCode1, authCode2>>

\* faulty variant: success is reported as soon as the enable call returns
EnableMFADeviceOk_returnsAtOnce ==
    /\ active = "mfa" /\ epc = "enable"
    /\ enableInput' = EnableMFADeviceInput
    /\ \E d \in 0..MaxCallDelay :
        /\ clock' = clock + d
        /\ steps' = Append(steps, Step("enable", clock, clock + d, NilError))
    /\ enabled' = enabled \cup {mfaDevice.SerialNumber}
    /\ eret' = [device |-> IF entry = "create" THEN mfaDevice ELSE NilDevice, err |-> NilError]
    /\ epc' = "done"
    /\ UNCHANGED <<wvars, xvars>>
    /\ UNCHANGED <<active, entry, eSess, devices, mfaDevice, iamClient, iamUserName,
                   authCode1, authCode2>>

EnableMFADeviceOk ==
    /\ active = "mfa" /\ epc = "enable"
    /\ enableInput' = EnableMFADeviceInput
    /\ \E d \in 0..MaxCallDelay :
        /\ clock' = clock + d
        /\ steps' = Append(steps, Step("enable", clock, clock + d, NilError))
    /\ enabled' = enabled \cup {mfaDevice.SerialNumber}
    /\ epc' = "sleep10"
    /\ UNCHANGED <<wvars, xvars>>
    /\ UNCHANGED <<active, entry, eSess, devices, mfaDevice, iamClient, iamUserName,
                   authCode1, authCode2, eret>>

\* time.Sleep(10 * time.Second), then EnableMfaDeviceE returns nil and
\* CreateMfaDeviceE, when it was the entry, returns the device.
PropagationSleep ==
    /\ active = "mfa" /\ epc = "sleep10"
    /\ \E j \in 0..MaxOversleep :
        /\ clock' = clock + PropagationSeconds + j
        /\ steps' = Append(steps, Step("sleep10", clock, clock + PropagationSeconds + j, NilError))
    /\ eret' = [device |-> IF entry = "create" THEN mfaDevice ELSE NilDevice, err |-> NilError]
    /\ epc' = "done"
    /\ UNCHANGED <<wvars, xvars>>
    /\ UNCHANGED <<active, entry, eSess, devices, enabled, mfaDevice, iamClient, iamUserName,
                   authCode1, authCode2, enableInput>>


\* --------------------------------------------------------------------- ec2
\* a map of instance id to public IP, kept as a set of <<id, ip>> pairs
IpMaps == {m \in SUBSET (InstanceIds \X PublicIps) :
              \A a \in m, b \in m : a[1] = b[1] => a = b}
NoIps == {}
Ec2Return(ips, ip, e) == [ips |-> ips, ip |-> ip, err |-> e]

XInit ==
    /\ xpc = "idle" /\ xEntry = "none" /\ xSess = <<>> /\ instanceIDs = {}
    /\ ec2Client = NoClient /\ xret = Ec2Return(NoIps, "", NilError)
    /\ fatalErr = NilError

\* NewEc2ClientE: the client wraps the session, or the session error is returned.
NewEc2ClientE(sess, fresh) == NewAuthenticatedSession(sess, fresh)

\* GetPublicIpsOfEc2InstancesE is entered; sessExists[0] is evaluated for NewEc2Client.
GetPublicIpsOfEc2InstancesE ==
    /\ active = "none"
    /\ \E ids \in SUBSET InstanceIds, se \in SessArgs :
        /\ instanceIDs' = ids
        /\ xSess' = se
        /\ xpc' = IF Len(se) = 0 THEN "panic" ELSE "client"
    /\ active' = "ec2" /\ xEntry' = "ips"
    /\ UNCHANGED <<wvars, evars>>
    /\ UNCHANGED <<ec2Client, xret, fatalErr>>

\* GetPublicIpOfEc2InstanceE is entered and calls GetPublicIpsOfEc2InstancesE with
\* the one instance id and sessExists[0].
GetPublicIpOfEc2InstanceE ==
    /\ active = "none"
    /\ \E id \in InstanceIds, se \in SessArgs :
        /\ instanceIDs' = {id}
        /\ xSess' = se
        /\ xpc' = IF Len(se) = 0 THEN "panic" ELSE "client"
    /\ active' = "ec2" /\ xEntry' = "ip"
    /\ UNCHANGED <<wvars, evars>>
    /\ UNCHANGED <<ec2Client, xret, fatalErr>>

\* TerminateInstanceE is entered; sessExists[0] is evaluated for NewEc2ClientE.
TerminateInstanceE ==
    /\ active = "none"
    /\ \E id \in InstanceIds, se \in SessArgs :
        /\ instanceIDs' = {id}
        /\ xSess' = se
        /\ xpc' = IF Len(se) = 0 THEN "panic" ELSE "clientE"
    /\ active' = "ec2" /\ xEntry' = "terminate"
    /\ UNCHANGED <<wvars, evars>>
    /\ UNCHANGED <<ec2Client, xret, fatalErr>>

\* NewEc2Client inside GetPublicIpsOfEc2InstancesE: a client error goes to t.Fatal.
NewEc2ClientFatal ==
    /\ active = "ec2" /\ xpc = "client"
    /\ \E fresh \in FreshOutcomes :
        LET c == NewEc2ClientE(xSess[1], fresh) IN
        /\ c.err # NilError
        /\ fatalErr' = c.err
    /\ xpc' = "fatal"
    /\ UNCHANGED <<wvars, evars>>
    /\ UNCHANGED <<active, xEntry, xSess, instanceIDs, ec2Client, xret>>

NewEc2ClientOk ==
    /\ active = "ec2" /\ xpc = "client"
    /\ \E fresh \in FreshOutcomes :
        LET c == NewEc2ClientE(xSess[1], fresh) IN
        /\ c.err = NilError
        /\ ec2Client' = c.sess
    /\ xpc' = "describe"
    /\ UNCHANGED <<wvars, evars>>
    /\ UNCHANGED <<active, xEntry, xSess, instanceIDs, xret, fatalErr>>

\* DescribeInstances fails: GetPublicIpsOfEc2InstancesE returns nil, err and
\* GetPublicIpOfEc2InstanceE hands the same error on.
DescribeInstancesFails ==
    /\ active = "ec2" /\ xpc = "describe"
    /\ \E e \in Errors : xret' = Ec2Return(NoIps, "", TransportError(e))
    /\ xpc' = "done"
    /\ UNCHANGED <<wvars, evars>>
    /\ UNCHANGED <<active, xEntry, xSess, instanceIDs, ec2Client, fatalErr>>

\* DescribeInstances succeeds: the map is built; GetPublicIpOfEc2InstanceE looks
\* its instance up in it.
DescribeInstancesOk ==
    /\ active = "ec2" /\ xpc = "describe"
    /\ \E ips \in IpMaps :
        /\ instanceIDs # {} => {a[1] : a \in ips} \subseteq instanceIDs
        /\ xret' = IF xEntry = "ips" THEN Ec2Return(ips, "", NilError)
                   ELSE LET id == CHOOSE x \in instanceIDs : TRUE IN  \* the one id
                        IF \E a \in ips : a[1] = id
                        THEN Ec2Return(NoIps, (CHOOSE a \in ips : a[1] = id)[2], NilError)
                        ELSE Ec2Return(NoIps, "", IpForEc2InstanceNotFound(id))
    /\ xpc' = "done"
    /\ UNCHANGED <<wvars, evars>>
    /\ UNCHANGED <<active, xEntry, xSess, instanceIDs, ec2Client, fatalErr>>

\* NewEc2ClientE inside TerminateInstanceE: a client error is returned.
TerminateNewClientFails ==
    /\ active = "ec2" /\ xpc = "clientE"
    /\ \E fresh \in FreshOutcomes :
        LET c == NewEc2ClientE(xSess[1], fresh) IN
        /\ c.err # NilError
        /\ xret' = Ec2Return(NoIps, "", c.err)
    /\ xpc' = "done"
    /\ UNCHANGED <<wvars, evars>>
    /\ UNCHANGED <<active, xEntry, xSess, instanceIDs, ec2Client, fatalErr>>

TerminateNewClientOk ==
    /\ active = "ec2" /\ xpc = "clientE"
    /\ \E fresh \in FreshOutcomes :
        LET c == NewEc2ClientE(xSess[1], fresh) IN
        /\ c.err = NilError
        /\ ec2Client' = c.sess
    /\ xpc' = "terminate"
    /\ UNCHANGED <<wvars, evars>>
    /\ UNCHANGED <<active, xEntry, xSess, instanceIDs, xret, fatalErr>>

\* TerminateInstances: its error, nil included, is returned.
TerminateInstances ==
    /\ active = "ec2" /\ xpc = "terminate"
    /\ \E e \in {NilError} \cup {TransportError(x) : x \in Errors} :
        xret' = Ec2Return(NoIps, "", e)
    /\ xpc' = "done"
    /\ UNCHANGED <<wvars, evars>>
    /\ UNCHANGED <<active, xEntry, xSess, instanceIDs, ec2Client, fatalErr>>

Init == active = "none" /\ WInit /\ EInit /\ XInit

Next ==
    \/ WaitForQueueMessagePanics
    \/ WaitForQueueMessage
    \/ ReceiveFails
    \/ ReceiveMessages
    \/ ReceiveEmpty
    \/ LoopExhausted
    \/ CreateMfaDeviceE
    \/ CreateVirtualMFADeviceFails
    \/ CreateVirtualMFADeviceOk
    \/ EnableMfaDeviceE
    \/ GetIamCurrentUserArnFails
    \/ GetIamCurrentUserArnOk
    \/ FirstCodeFails
    \/ FirstCodeOk
    \/ SettleSleep
    \/ SecondCodeFails
    \/ SecondCodeOk
    \/ EnableMFADeviceFails
    \/ EnableMFADeviceOk
    \/ PropagationSleep
    \/ GetPublicIpsOfEc2InstancesE
    \/ GetPublicIpOfEc2InstanceE
    \/ TerminateInstanceE
    \/ NewEc2ClientFatal
    \/ NewEc2ClientOk
    \/ DescribeInstancesFails
    \/ DescribeInstancesOk
    \/ TerminateNewClientFails
    \/ TerminateNewClientOk
    \/ TerminateInstances

Spec == Init /\ [][Next]_vars

\* ================================================================ properties
\* PollOutcome of a returned QueueMessageResponse
Outcome == IF resp.Error.kind = "nil" THEN "Received"
           ELSE IF resp.Error.kind = "timeout" THEN "TimedOut"
           ELSE "Failed"
WReturned == active = "wait" /\ wpc = "done"
WEnded == active = "wait" /\ wpc \in {"done", "panic"}
LoopReached == active = "wait" /\ sqsClient # NoClient
AllEmpty == \A k \in 1..Len(results) : results[k] = "empty"
WaitsAre(n) == \A k \in 1..Len(calls) : calls[k].WaitTimeSeconds = n
\* the loop ran to its end with no message and no failed receive call
TimedOutRun == WReturned /\ Outcome = "TimedOut"

\* C1 (as stated): for 1 <= totalTimeoutSeconds <= 20 a run with no message and no
\* failed receive performs exactly one receive call whose wait bound is
\* totalTimeoutSeconds.
C1_OneCallOfTimeout ==
    (TimedOutRun /\ 1 <= timeout /\ timeout <= 20)
        => (Len(calls) = 1 /\ calls[1].WaitTimeSeconds = timeout)

\* C1 (amended): for 1 <= totalTimeoutSeconds < 20 such a run performs exactly
\* totalTimeoutSeconds receive calls, each with a wait bound of 1; for
\* totalTimeoutSeconds = 20 it performs exactly one call with a wait bound of 20.
\* At no point of the loop have more calls than that been issued.
C1_ShortTimeoutCalls ==
    (LoopReached /\ 1 <= timeout /\ timeout <= 20)
        => /\ timeout < 20 => (Len(calls) <= timeout /\ WaitsAre(1))
           /\ timeout = 20 => (Len(calls) <= 1 /\ WaitsAre(20))
           /\ TimedOutRun => Len(calls) = (IF timeout = 20 THEN 1 ELSE timeout)

C1_Witness == TimedOutRun /\ timeout = 5 /\ Len(calls) = 5

\* C2: for totalTimeoutSeconds > 20 a run with no message and no failed receive
\* performs exactly floor(totalTimeoutSeconds / 20) receive calls, each with a wait
\* bound of 20; the remainder is dropped.
C2_LongTimeoutCalls ==
    (LoopReached /\ timeout > 20)
        => /\ WaitsAre(20)
           /\ Len(calls) * 20 <= timeout
           /\ TimedOutRun => timeout < (Len(calls) + 1) * 20

C2_Witness == TimedOutRun /\ timeout = 25 /\ Len(calls) = 1 /\ WaitsAre(20)

\* C3: when the receive call of attempt k returns at least one message, the waiter
\* has returned Received with the first message's receipt handle and body, and no
\* receive call after the k-th exists.
C3_ReceivedImmediately ==
    \A k \in 1..Len(results) :
        results[k] = "message"
            => /\ WReturned /\ Outcome = "Received"
               /\ Len(received) > 0
               /\ resp.ReceiptHandle = received[1].ReceiptHandle
               /\ resp.MessageBody = received[1].Body
               /\ Len(calls) = k /\ Len(results) = k

C3_Witness ==
    /\ Len(results) = 2 /\ results[2] = "message" /\ cycles > 2
    /\ Len(received) = 2 /\ received[1] # received[2]

\* C4: when the receive call of attempt k fails with a transport error, the waiter
\* has returned Failed carrying that error, and no receive call after the k-th
\* exists, also when attempts 1..k-1 came back empty.
C4_FailedImmediately ==
    \A k \in 1..Len(results) :
        results[k] \in Errors
            => /\ WReturned /\ Outcome = "Failed"
               /\ resp = QueueMessageResponse("", "", TransportError(results[k]))
               /\ Len(calls) = k /\ Len(results) = k

C4_Witness ==
    /\ Len(results) = 3 /\ results[3] \in Errors /\ cycles > 3
    /\ results[1] = "empty" /\ results[2] = "empty"

\* C5: every invocation ends in exactly one of Received, TimedOut or Failed;
\* it is TimedOut exactly when every iteration completed with no message, and
\* the TimedOut value carries the caller's queue and requested timeout.
C5_OutcomeTotal ==
    WEnded
        => /\ WReturned
           /\ Outcome \in {"Received", "TimedOut", "Failed"}
           /\ (Outcome = "TimedOut")
                 <=> (LoopReached /\ Len(results) = cycles /\ AllEmpty)
           /\ (Outcome = "TimedOut")
                 => resp = QueueMessageResponse("", "", ReceiveMessageTimeout(queueURL, timeout))

\* ------------------------------------------------------ enrollment properties
EDone == active = "mfa" /\ epc = "done"
ESuccess == EDone /\ eret.err = NilError
StepOps == {steps[k].op : k \in 1..Len(steps)}
FlowOps == {"lookup", "code1", "sleep30", "code2", "enable", "sleep10"}
\* EnrollmentState as a rank: Created, AwaitingFirstCode, AwaitingSecondCode,
\* Submitted, Active
EnrollmentRank ==
    IF mfaDevice.SerialNumber \in enabled THEN 4
    ELSE IF enableInput # NoEnableInput THEN 3
    ELSE IF authCode1 # NoCode THEN 2
    ELSE IF "lookup" \in StepOps THEN 1
    ELSE 0

\* C6: the two codes submitted to the enable operation are generated from the same
\* device at clock values at least 30 apart, and the enable operation is not called
\* before the 30 unit sleep that follows the first code has elapsed.
C6_CodesThirtyApart ==
    /\ authCode2 # NoCode
         => /\ authCode2.at - authCode1.at >= 30
            /\ authCode1.seed = mfaDevice.Base32StringSeed
            /\ authCode2.seed = mfaDevice.Base32StringSeed
    /\ \A k \in 1..Len(steps) :
         steps[k].op = "enable"
            => /\ steps[k].start >= authCode1.at + 30
               /\ enableInput.AuthenticationCode1 = authCode1
               /\ enableInput.AuthenticationCode2 = authCode2
               /\ authCode1 # NoCode /\ authCode2 # NoCode
               /\ \E m \in 1..(k - 1) :
                     /\ steps[m].op = "sleep30"
                     /\ steps[m].start >= authCode1.at
                     /\ steps[m].end - steps[m].start >= 30

C6_Witness ==
    /\ "enable" \in StepOps
    /\ enableInput.AuthenticationCode2.at = enableInput.AuthenticationCode1.at + 30

\* C7: success is reported only when at least 10 time units have passed since the
\* enable call returned successfully, the last thing done being the propagation
\* sleep; CreateMfaDeviceE then returns the enabled device.
C7_SuccessAfterPropagation ==
    ESuccess
        => /\ \E k \in 1..Len(steps) :
                /\ steps[k].op = "enable" /\ steps[k].err = NilError
                /\ clock >= steps[k].end + 10
           /\ steps[Len(steps)].op = "sleep10"
           /\ mfaDevice.SerialNumber \in enabled
           /\ entry = "create" => eret.device = mfaDevice

C7_Witness ==
    /\ ESuccess /\ entry = "create" /\ eret.device \in MfaDevices
    /\ \E k \in 1..Len(steps) : steps[k].op = "enable" /\ clock = steps[k].end + 10

\* C8: when the device-creation call fails, CreateMfaDeviceE has returned that
\* error and nothing else was done: no identity lookup, no code, no sleep, no
\* enable call.
C8_CreationFailureIsTerminal ==
    \A k \in 1..Len(steps) :
        (steps[k].op = "create" /\ steps[k].err # NilError)
            => /\ EDone /\ eret = [device |-> NilDevice, err |-> steps[k].err]
               /\ Len(steps) = 1 /\ clock = steps[k].end
               /\ iamClient = NoClient /\ iamUserName = "nil"
               /\ authCode1 = NoCode /\ authCode2 = NoCode
               /\ enableInput = NoEnableInput /\ enabled = {} /\ devices = {}

C8_Witness ==
    /\ Len(steps) = 1 /\ steps[1].op = "create" /\ steps[1].err = TransportError("e2")
    /\ eSess = <<>>

\* C9: the first error of a step of the flow is returned unmodified and ends the
\* flow: no step follows it, no step is made twice, the created device is never
\* deleted or disabled, and the enrollment state never moves backward.
C9_FailFastNoRollback ==
    /\ [](\A k \in 1..Len(steps) :
             /\ (steps[k].op \in FlowOps /\ steps[k].err # NilError)
                   => /\ k = Len(steps) /\ EDone
                      /\ eret = [device |-> NilDevice, err |-> steps[k].err]
                      /\ steps[k].op \in {"lookup", "code1", "code2", "enable"}
             /\ \A m \in 1..Len(steps) : steps[m].op = steps[k].op => m = k)
    /\ [][/\ devices \subseteq devices'
          /\ enabled \subseteq enabled'
          /\ EnrollmentRank' >= EnrollmentRank]_vars

C9_Witness ==
    /\ EDone /\ entry = "create" /\ Len(steps) = 6
    /\ steps[6].op = "enable" /\ steps[6].err # NilError
    /\ eret.err = steps[6].err
    /\ mfaDevice.SerialNumber \in devices /\ EnrollmentRank = 3

\* C10: the session handle is optional: a supplied handle is the one used, and a
\* call without a handle requests a fresh one and never crashes.
C10_HandleOptional ==
    /\ active = "wait"
         => /\ wpc # "panic"
            /\ (Len(sessExists) > 0 /\ sqsClient # NoClient)
                  => sqsClient = (IF sessExists[1] = NilSession THEN FreshSession
                                  ELSE sessExists[1])
    /\ active = "mfa"
         => /\ epc # "panic"
            /\ (Len(eSess) > 0 /\ iamClient # NoClient)
                  => iamClient = (IF eSess[1] = NilSession THEN FreshSession
                                  ELSE eSess[1])

\* ------------------------------------------------------------ ec2 properties
\* C11: an error-returning operation reports every failure of a step it performs,
\* the construction of its client included, as an error value to its caller, and
\* never reaches the fatal test abort.
C11_ErrorsAreReturned ==
    active = "ec2"
        => /\ xpc # "fatal"
           /\ (xpc \notin {"idle", "panic", "client", "clientE"} /\ ec2Client = NoClient)
                 => (xpc = "done" /\ xret.err.kind = "transport")

\* --------------------------------------------------------- waiter wait budget
RECURSIVE WaitedBefore(_)
\* the sum of the wait bounds of the first n receive calls
WaitedBefore(n) == IF n = 0 THEN 0 ELSE WaitedBefore(n - 1) + calls[n].WaitTimeSeconds
TotalWaited == WaitedBefore(Len(calls))

\* C12: with totalTimeoutSeconds >= 1, at every point of the loop the wait bounds
\* issued so far sum to at most totalTimeoutSeconds, each wait bound is between 1
\* and 20, and the elapsed seconds logged before attempt k are the sum of the wait
\* bounds of the attempts before k; on a timeout the total is totalTimeoutSeconds
\* when that is below 20 or a multiple of 20, and above totalTimeoutSeconds - 20
\* otherwise.
C12_WaitBudget ==
    (LoopReached /\ timeout >= 1)
        => /\ TotalWaited <= timeout
           /\ \A k \in 1..Len(calls) :
                 /\ 1 <= calls[k].WaitTimeSeconds
                 /\ calls[k].WaitTimeSeconds <= 20
           /\ Len(logged) = Len(calls)
           /\ \A k \in 1..Len(logged) : logged[k] = WaitedBefore(k - 1)
           /\ TimedOutRun
                 => IF timeout < 20 \/ timeout % 20 = 0
                    THEN TotalWaited = timeout
                    ELSE TotalWaited > timeout - 20 /\ TotalWaited < timeout

C12_Witness ==
    /\ TimedOutRun /\ timeout = 45 /\ TotalWaited = 40
    /\ logged = <<0, 20>>
====
